---- MODULE Spec2Model ----
(***************************************************************************)
(* kokkostbx::vector_base<Derived, NumType, size>, kokkostbx::vector and   *)
(* kokkostbx::vector3, instantiated for a signed integral NumType of Width *)
(* bits that is narrower than int (signed char, short): every arithmetic   *)
(* expression is evaluated in int and converted back to NumType when it is *)
(* stored, which reduces it modulo 2^Width.                                *)
(*                                                                         *)
(* A vector is its member `data`: a function from Index = 0..size-1 to     *)
(* NumType.  Two outcomes are undefined in C++ and are left to the build:  *)
(* an integer division by zero (a hardware trap, or any value) and the     *)
(* conversion to NumType of the NaN that sqrt returns for a negative       *)
(* argument (any value).  Every operator that can meet one takes the value *)
(* `u` the build produces there, and the actions choose it freely.         *)
(***************************************************************************)
EXTENDS Integers, FiniteSets, Sequences, TLC

\* Bounds of the model.
Width == 5
MaxVal == 2
MaxSteps == 2

\* template parameter `size` of vector3's base class
size == 3

Index == 0..(size - 1)

RECURSIVE Pow2(_)
Pow2(n) == IF n = 0 THEN 1 ELSE 2 * Pow2(n - 1)

Modulus == Pow2(Width)
NumMin == -Pow2(Width - 1)
NumMax == Pow2(Width - 1) - 1
NumType == NumMin..NumMax

\* Conversion of an int result to NumType on assignment.
Narrow(x) == ((x - NumMin) % Modulus) + NumMin

Abs(x) == IF x < 0 THEN -x ELSE x

\* C++ integer division truncates toward zero.
TruncDiv(x, y) ==
    IF (x >= 0) = (y > 0) THEN Abs(x) \div Abs(y) ELSE -(Abs(x) \div Abs(y))

\* x / y stored to a NumType; y = 0 is undefined behaviour with outcome u.
num_div(x, y, u) == IF y = 0 THEN u ELSE Narrow(TruncDiv(x, y))

\* Kokkos::Experimental::sqrt of an integral argument is computed in double;
\* returning it as NumType truncates.  A negative argument gives NaN, whose
\* conversion is undefined behaviour with outcome u.
num_sqrt(x, u) ==
    IF x < 0 THEN u ELSE CHOOSE r \in 0..x : r * r <= x /\ (r + 1) * (r + 1) > x

(***************************************************************************)
(* Constructors                                                            *)
(***************************************************************************)
vector_base_default == [i \in Index |-> 0]

RECURSIVE vector_base_val_from(_, _, _)
vector_base_val_from(data, val, i) ==
    IF i < size THEN vector_base_val_from([data EXCEPT ![i] = val], val, i + 1)
    ELSE data
vector_base_val(val) == vector_base_val_from(vector_base_default, val, 0)

RECURSIVE vector_base_arr_from(_, _, _)
vector_base_arr_from(data, arr, i) ==
    IF i < size THEN vector_base_arr_from([data EXCEPT ![i] = arr[i]], arr, i + 1)
    ELSE data
vector_base_arr(arr) == vector_base_arr_from(vector_base_default, arr, 0)

vector3_xyz(x, y, z) ==
    [[[vector_base_default EXCEPT ![0] = x] EXCEPT ![1] = y] EXCEPT ![2] = z]

(***************************************************************************)
(* Element access                                                          *)
(***************************************************************************)
op_index(data, index) == data[index]
x_val(data) == data[0]
y_val(data) == data[1]
z_val(data) == data[2]
\* writes through the references that operator[], x_val(), y_val() and z_val()
\* return
set_index(data, index, val) == [data EXCEPT ![index] = val]
set_x_val(data, val) == [data EXCEPT ![0] = val]
set_y_val(data, val) == [data EXCEPT ![1] = val]
set_z_val(data, val) == [data EXCEPT ![2] = val]

(***************************************************************************)
(* In-place operators                                                      *)
(***************************************************************************)
RECURSIVE plus_assign_from(_, _, _)
plus_assign_from(data, v, i) ==
    IF i < size
    THEN plus_assign_from([data EXCEPT ![i] = Narrow(data[i] + v[i])], v, i + 1)
    ELSE data
\* faulty variant: the loop stops one element early
op_plus_assign_short(data, v) ==
    [i \in Index |-> IF i < size - 1 THEN Narrow(data[i] + v[i]) ELSE data[i]]
op_plus_assign(data, v) == plus_assign_from(data, v, 0)

RECURSIVE plus_assign_num_from(_, _, _)
plus_assign_num_from(data, s, i) ==
    IF i < size
    THEN plus_assign_num_from([data EXCEPT ![i] = Narrow(data[i] + s)], s, i + 1)
    ELSE data
op_plus_assign_num(data, s) == plus_assign_num_from(data, s, 0)

RECURSIVE minus_assign_from(_, _, _)
minus_assign_from(data, v, i) ==
    IF i < size
    THEN minus_assign_from([data EXCEPT ![i] = Narrow(data[i] - v[i])], v, i + 1)
    ELSE data
op_minus_assign(data, v) == minus_assign_from(data, v, 0)

RECURSIVE minus_assign_num_from(_, _, _)
minus_assign_num_from(data, s, i) ==
    IF i < size
    THEN minus_assign_num_from([data EXCEPT ![i] = Narrow(data[i] - s)], s, i + 1)
    ELSE data
op_minus_assign_num(data, s) == minus_assign_num_from(data, s, 0)

RECURSIVE times_assign_from(_, _, _)
times_assign_from(data, v, i) ==
    IF i < size
    THEN times_assign_from([data EXCEPT ![i] = Narrow(data[i] * v[i])], v, i + 1)
    ELSE data
op_times_assign(data, v) == times_assign_from(data, v, 0)

RECURSIVE times_assign_num_from(_, _, _)
times_assign_num_from(data, s, i) ==
    IF i < size
    THEN times_assign_num_from([data EXCEPT ![i] = Narrow(data[i] * s)], s, i + 1)
    ELSE data
op_times_assign_num(data, s) == times_assign_num_from(data, s, 0)

RECURSIVE div_assign_from(_, _, _, _)
div_assign_from(data, v, u, i) ==
    IF i < size
    THEN div_assign_from([data EXCEPT ![i] = num_div(data[i], v[i], u)], v, u, i + 1)
    ELSE data
op_div_assign(data, v, u) == div_assign_from(data, v, u, 0)

RECURSIVE div_assign_num_from(_, _, _, _)
div_assign_num_from(data, s, u, i) ==
    IF i < size
    THEN div_assign_num_from([data EXCEPT ![i] = num_div(data[i], s, u)], s, u, i + 1)
    ELSE data
op_div_assign_num(data, s, u) == div_assign_num_from(data, s, u, 0)

(***************************************************************************)
(* Value-returning operators: each works on a copy of its left operand     *)
(***************************************************************************)
op_plus(lhs, rhs) == LET sum == lhs IN op_plus_assign(sum, rhs)

RECURSIVE neg_from(_, _)
neg_from(negative, i) ==
    IF i < size
    THEN neg_from(set_index(negative, i, Narrow(op_index(negative, i) * (-1))), i + 1)
    ELSE negative
\* faulty variant: the loop starts at the second element
op_neg_skip_first(vec) == LET negative == vec IN neg_from(negative, 1)
op_neg(vec) == LET negative == vec IN neg_from(negative, 0)

\* faulty variant: the body of operator+ pasted into operator-
op_minus_adds(lhs, rhs) == LET sum == lhs IN op_plus_assign(sum, rhs)
op_minus(lhs, rhs) == LET sum == lhs IN op_minus_assign(sum, rhs)

op_times(lhs, rhs) == LET prod == lhs IN op_times_assign(prod, rhs)

op_div(lhs, rhs, u) == LET quot == lhs IN op_div_assign(quot, rhs, u)

(***************************************************************************)
(* Methods                                                                 *)
(***************************************************************************)
RECURSIVE zero_from(_, _)
zero_from(data, i) ==
    IF i < size THEN zero_from([data EXCEPT ![i] = 0], i + 1) ELSE data
zero(data) == zero_from(data, 0)

RECURSIVE ones_from(_, _)
ones_from(data, i) ==
    IF i < size THEN ones_from([data EXCEPT ![i] = 1], i + 1) ELSE data
ones(data) == ones_from(data, 0)

RECURSIVE is_zero_from(_, _)
is_zero_from(data, i) ==
    IF i < size
    THEN IF data[i] # 0 THEN FALSE ELSE is_zero_from(data, i + 1)
    ELSE TRUE
\* faulty variant: the loop returns after its first element
is_zero_first_only(data) == IF data[0] # 0 THEN FALSE ELSE TRUE
is_zero(data) == is_zero_from(data, 0)

RECURSIVE dot_from(_, _, _, _)
dot_from(data, v, sum, i) ==
    IF i < size
    THEN dot_from(data, v, Narrow(sum + data[i] * v[i]), i + 1)
    ELSE sum
\* faulty variant: sum = instead of sum +=
dot_overwrite(data, v) == Narrow(data[size - 1] * v[size - 1])
dot(data, v) == dot_from(data, v, 0, 0)

RECURSIVE length_sqr_from(_, _, _)
length_sqr_from(data, sum, i) ==
    IF i < size
    THEN length_sqr_from(data, Narrow(sum + data[i] * data[i]), i + 1)
    ELSE sum
length_sqr(data) == length_sqr_from(data, 0, 0)

length(data, u) == num_sqrt(length_sqr(data), u)

\* normalize and get_unit_vector hand back, beside the vector, how many element
\* divisions they executed
RECURSIVE normalize_from(_, _, _, _)
normalize_from(data, l, u, i) ==
    IF i < size
    THEN normalize_from([data EXCEPT ![i] = num_div(data[i], l, u)], l, u, i + 1)
    ELSE [data |-> data, divisions |-> size]
\* faulty variant: the guard l > 0 is missing
normalize_unguarded(data, u) == normalize_from(data, length(data, u), u, 0)
normalize(data, u) ==
    LET l == length(data, u)
    IN  IF l > 0 THEN normalize_from(data, l, u, 0)
        ELSE [data |-> data, divisions |-> 0]

RECURSIVE unit_vector_from(_, _, _, _, _)
unit_vector_from(data, unit_vector, l, u, i) ==
    IF i < size
    THEN unit_vector_from(data,
                          set_index(unit_vector, i, num_div(data[i], l, u)),
                          l, u, i + 1)
    ELSE [data |-> unit_vector, divisions |-> size]
get_unit_vector(data, u) ==
    LET l == length(data, u)
        unit_vector == vector_base_default
    IN  IF l > 0 THEN unit_vector_from(data, unit_vector, l, u, 0)
        ELSE [data |-> unit_vector, divisions |-> 0]

\* faulty variant: the y component with its two products exchanged
cross_y_swapped(data, v) ==
    vector3_xyz(Narrow(y_val(data) * z_val(v) - z_val(data) * y_val(v)),
                Narrow(x_val(data) * z_val(v) - z_val(data) * x_val(v)),
                Narrow(x_val(data) * y_val(v) - y_val(data) * x_val(v)))
\* faulty variant: the z component reads v.y_val() twice
cross_z_typo(data, v) ==
    vector3_xyz(Narrow(y_val(data) * z_val(v) - z_val(data) * y_val(v)),
                Narrow(z_val(data) * x_val(v) - x_val(data) * z_val(v)),
                Narrow(x_val(data) * y_val(v) - y_val(data) * y_val(v)))
cross(data, v) ==
    LET cross_vector == vector_base_default
        cx == set_index(cross_vector, 0,
                        Narrow(y_val(data) * z_val(v) - z_val(data) * y_val(v)))
        cy == set_index(cx, 1,
                        Narrow(z_val(data) * x_val(v) - x_val(data) * z_val(v)))
        cz == set_index(cy, 2,
                        Narrow(x_val(data) * y_val(v) - y_val(data) * x_val(v)))
    IN  cz

(***************************************************************************)
(* Calls.  A call leaves behind the receiver (or left operand), the other  *)
(* operand and the returned value.  Operands are passed as const Derived&  *)
(* and the value-returning members are const, so both are handed back as   *)
(* they came; an in-place operator hands back the receiver it wrote.       *)
(***************************************************************************)
\* faulty variant: the sum is built in lhs itself, not in a copy
call_plus_in_place(lhs, rhs) ==
    [self |-> op_plus(lhs, rhs), other |-> rhs, ret |-> op_plus(lhs, rhs),
     divisions |-> 0]
call_plus(lhs, rhs) ==
    [self |-> lhs, other |-> rhs, ret |-> op_plus(lhs, rhs), divisions |-> 0]
call_neg(vec, rhs) ==
    [self |-> vec, other |-> rhs, ret |-> op_neg(vec), divisions |-> 0]
call_minus(lhs, rhs) ==
    [self |-> lhs, other |-> rhs, ret |-> op_minus(lhs, rhs), divisions |-> 0]
call_times(lhs, rhs) ==
    [self |-> lhs, other |-> rhs, ret |-> op_times(lhs, rhs), divisions |-> 0]
call_div(lhs, rhs, u) ==
    [self |-> lhs, other |-> rhs, ret |-> op_div(lhs, rhs, u), divisions |-> size]
call_dot(data, v) ==
    [self |-> data, other |-> v, ret |-> dot(data, v), divisions |-> 0]
call_length_sqr(data, v) ==
    [self |-> data, other |-> v, ret |-> length_sqr(data), divisions |-> 0]
call_length(data, v, u) ==
    [self |-> data, other |-> v, ret |-> length(data, u), divisions |-> 0]
call_is_zero(data, v) ==
    [self |-> data, other |-> v, ret |-> is_zero(data), divisions |-> 0]
call_get_unit_vector(data, v, u) ==
    LET r == get_unit_vector(data, u)
    IN  [self |-> data, other |-> v, ret |-> r.data, divisions |-> r.divisions]
call_cross(data, v) ==
    [self |-> data, other |-> v, ret |-> cross(data, v), divisions |-> 0]

call_plus_assign(data, v) ==
    [self |-> op_plus_assign(data, v), other |-> v, ret |-> "void", divisions |-> 0]
call_plus_assign_num(data, v, s) ==
    [self |-> op_plus_assign_num(data, s), other |-> v, ret |-> "void",
     divisions |-> 0]
call_minus_assign(data, v) ==
    [self |-> op_minus_assign(data, v), other |-> v, ret |-> "void", divisions |-> 0]
call_minus_assign_num(data, v, s) ==
    [self |-> op_minus_assign_num(data, s), other |-> v, ret |-> "void",
     divisions |-> 0]
call_times_assign(data, v) ==
    [self |-> op_times_assign(data, v), other |-> v, ret |-> "void", divisions |-> 0]
call_times_assign_num(data, v, s) ==
    [self |-> op_times_assign_num(data, s), other |-> v, ret |-> "void",
     divisions |-> 0]
call_div_assign(data, v, u) ==
    [self |-> op_div_assign(data, v, u), other |-> v, ret |-> "void",
     divisions |-> size]
call_div_assign_num(data, v, s, u) ==
    [self |-> op_div_assign_num(data, s, u), other |-> v, ret |-> "void",
     divisions |-> size]
call_zero(data, v) ==
    [self |-> zero(data), other |-> v, ret |-> "void", divisions |-> 0]
call_ones(data, v) ==
    [self |-> ones(data), other |-> v, ret |-> "void", divisions |-> 0]
call_normalize(data, v, u) ==
    LET r == normalize(data, u)
    IN  [self |-> r.data, other |-> v, ret |-> "void", divisions |-> r.divisions]
call_set_index(data, v, index, val) ==
    [self |-> set_index(data, index, val), other |-> v, ret |-> "void",
     divisions |-> 0]

call_set_x_val(data, v, val) ==
    [self |-> set_x_val(data, val), other |-> v, ret |-> "void", divisions |-> 0]
call_set_y_val(data, v, val) ==
    [self |-> set_y_val(data, val), other |-> v, ret |-> "void", divisions |-> 0]
call_set_z_val(data, v, val) ==
    [self |-> set_z_val(data, val), other |-> v, ret |-> "void", divisions |-> 0]

(***************************************************************************)
(* State: two vectors a (receiver, left operand) and b (other operand), a  *)
(* third operand c for sums of three, the last operation `op` with the     *)
(* value `res` it returned, the number `ndiv` of element divisions it      *)
(* executed, whether a division by zero has trapped, and the number of     *)
(* modifying operations applied so far.                                    *)
(***************************************************************************)
VARIABLES a, b, c, op, res, ndiv, trapped, steps

vars == <<a, b, c, op, res, ndiv, trapped, steps>>

\* Arguments the callers pass.
ScalarIn == (-MaxVal)..MaxVal
BroadcastIn == {vector_base_val(s) : s \in ScalarIn}
Vec3In == {vector3_xyz(x, y, z) : x \in ScalarIn, y \in ScalarIn, z \in ScalarIn}
NearIn == (1 - MaxVal)..(MaxVal - 1)
Vec3NearIn == {vector3_xyz(x, y, z) : x \in NearIn, y \in NearIn, z \in NearIn}
EdgeIn == {vector_base_val(NumMin), vector_base_val(NumMax)}

\* The outcomes a build can give an undefined conversion or division: the value
\* is unconstrained; the model lets it range over the ends and the middle of
\* NumType.
UndefinedVals == {NumMin, -1, 0, 1, NumMax}
Outcomes(undefined) == IF undefined THEN UndefinedVals ELSE {0}

has_zero(v) == \E i \in Index : v[i] = 0

\* The state a call leaves.
Call(name, e) ==
    /\ ~trapped
    /\ op' = name
    /\ a' = e.self
    /\ b' = e.other
    /\ res' = e.ret
    /\ ndiv' = e.divisions
    /\ UNCHANGED <<c, trapped>>

\* A division by zero that the hardware traps ends the program: nothing is
\* returned and no quotient is stored.
Trap(name) ==
    /\ ~trapped
    /\ op' = name
    /\ trapped' = TRUE
    /\ res' = "void"
    /\ ndiv' = 0
    /\ UNCHANGED <<a, b, c>>

Modifying == steps < MaxSteps /\ steps' = steps + 1

(***************************************************************************)
(* Value-returning operations                                              *)
(***************************************************************************)
Plus == Call("plus", call_plus(a, b)) /\ UNCHANGED steps

Negate == Call("neg", call_neg(a, b)) /\ UNCHANGED steps

Minus == Call("minus", call_minus(a, b)) /\ UNCHANGED steps

Times == Call("times", call_times(a, b)) /\ UNCHANGED steps

Divide ==
    /\ UNCHANGED steps
    /\ \/ \E u \in Outcomes(has_zero(b)) : Call("div", call_div(a, b, u))
       \/ has_zero(b) /\ Trap("div")

Dot == Call("dot", call_dot(a, b)) /\ UNCHANGED steps

LengthSqr == Call("length_sqr", call_length_sqr(a, b)) /\ UNCHANGED steps

Length ==
    /\ UNCHANGED steps
    /\ \E u \in Outcomes(length_sqr(a) < 0) : Call("length", call_length(a, b, u))

IsZero == Call("is_zero", call_is_zero(a, b)) /\ UNCHANGED steps

GetUnitVector ==
    /\ UNCHANGED steps
    /\ \E u \in Outcomes(length_sqr(a) < 0) :
          Call("get_unit_vector", call_get_unit_vector(a, b, u))

Cross == Call("cross", call_cross(a, b)) /\ UNCHANGED steps

(***************************************************************************)
(* Modifying operations                                                    *)
(***************************************************************************)
PlusAssign == Modifying /\ Call("plus_assign", call_plus_assign(a, b))

PlusAssignNum ==
    /\ Modifying
    /\ \E s \in ScalarIn : Call("plus_assign_num", call_plus_assign_num(a, b, s))

MinusAssign == Modifying /\ Call("minus_assign", call_minus_assign(a, b))

MinusAssignNum ==
    /\ Modifying
    /\ \E s \in ScalarIn : Call("minus_assign_num", call_minus_assign_num(a, b, s))

TimesAssign == Modifying /\ Call("times_assign", call_times_assign(a, b))

TimesAssignNum ==
    /\ Modifying
    /\ \E s \in ScalarIn : Call("times_assign_num", call_times_assign_num(a, b, s))

DivAssign ==
    /\ Modifying
    /\ \/ \E u \in Outcomes(has_zero(b)) :
             Call("div_assign", call_div_assign(a, b, u))
       \/ has_zero(b) /\ Trap("div_assign")

DivAssignNum ==
    /\ Modifying
    /\ \E s \in ScalarIn :
          \/ \E u \in Outcomes(s = 0) :
                Call("div_assign_num", call_div_assign_num(a, b, s, u))
          \/ s = 0 /\ Trap("div_assign_num")

Zero == Modifying /\ Call("zero", call_zero(a, b))

Ones == Modifying /\ Call("ones", call_ones(a, b))

Normalize ==
    /\ Modifying
    /\ \E u \in Outcomes(length_sqr(a) < 0) :
          Call("normalize", call_normalize(a, b, u))

SetIndex ==
    /\ Modifying
    /\ \E index \in Index, val \in ScalarIn :
          Call("set_index", call_set_index(a, b, index, val))

SetXVal ==
    /\ Modifying
    /\ \E val \in ScalarIn : Call("set_x_val", call_set_x_val(a, b, val))

SetYVal ==
    /\ Modifying
    /\ \E val \in ScalarIn : Call("set_y_val", call_set_y_val(a, b, val))

SetZVal ==
    /\ Modifying
    /\ \E val \in ScalarIn : Call("set_z_val", call_set_z_val(a, b, val))

(***************************************************************************)
(* Expressions a caller builds from operator+ and unary operator-; the     *)
(* operands are const references and stay as they are.                     *)
(***************************************************************************)
Returns(name, val) ==
    /\ ~trapped
    /\ op' = name
    /\ res' = val
    /\ ndiv' = 0
    /\ UNCHANGED <<a, b, c, trapped, steps>>

\* (a + b) + c
SumLeft == Returns("sum_left", op_plus(op_plus(a, b), c))

\* a + (b + c)
SumRight == Returns("sum_right", op_plus(a, op_plus(b, c)))

\* b + a
PlusCommuted == Returns("plus_commuted", op_plus(b, a))

\* a + (-a)
PlusNegated == Returns("plus_negated", op_plus(a, op_neg(a)))

(***************************************************************************)
(* Specifications                                                          *)
(***************************************************************************)
Fresh ==
    /\ op = "init"
    /\ res = "void"
    /\ ndiv = 0
    /\ trapped = FALSE
    /\ steps = 0

ValueOp ==
    \/ Plus
    \/ Negate
    \/ Minus
    \/ Times
    \/ Divide
    \/ Dot
    \/ LengthSqr
    \/ Length
    \/ IsZero
    \/ GetUnitVector
    \/ Cross

ModifyingOp ==
    \/ PlusAssign
    \/ PlusAssignNum
    \/ MinusAssign
    \/ MinusAssignNum
    \/ TimesAssign
    \/ TimesAssignNum
    \/ DivAssign
    \/ DivAssignNum
    \/ Zero
    \/ Ones
    \/ Normalize
    \/ SetIndex
    \/ SetXVal
    \/ SetYVal
    \/ SetZVal

\* Sequences of at most MaxSteps modifying operations, and any value-returning
\* operations between them, on vectors built by the scalar constructor.
Init ==
    /\ a = vector_base_default
    /\ b \in BroadcastIn
    /\ c = vector_base_default
    /\ Fresh

Next == ValueOp \/ ModifyingOp

Spec == Init /\ [][Next]_vars

\* The value-returning operations on pairs of vector3(x, y, z) and of vectors
\* filled with the least and the greatest NumType.
InitValue ==
    /\ a \in Vec3In \cup EdgeIn
    /\ b \in Vec3NearIn \cup EdgeIn
    /\ c = vector_base_default
    /\ Fresh

NextValue == ValueOp

SpecValue == InitValue /\ [][NextValue]_vars

\* Sums of two and three vectors: a built from an array, b and c by the scalar
\* constructor, each also filled with the least and the greatest NumType.
ArrIn == [Index -> ScalarIn]

InitSum ==
    /\ a \in {vector_base_arr(arr) : arr \in ArrIn} \cup EdgeIn
    /\ b \in BroadcastIn \cup EdgeIn
    /\ c \in BroadcastIn \cup EdgeIn
    /\ Fresh

NextSum ==
    \/ Plus
    \/ Negate
    \/ SumLeft
    \/ SumRight
    \/ PlusCommuted
    \/ PlusNegated

SpecSum == InitSum /\ [][NextSum]_vars

(***************************************************************************)
(* Properties                                                              *)
(***************************************************************************)
AllZero(v) == \A i \in Index : v[i] = 0

RECURSIVE SumOfProducts(_, _, _)
SumOfProducts(x, y, S) ==
    IF S = {} THEN 0
    ELSE LET i == CHOOSE j \in S : TRUE
         IN  x[i] * y[i] + SumOfProducts(x, y, S \ {i})

ValueNames ==
    {"plus", "neg", "minus", "times", "div", "dot", "length_sqr", "length",
     "is_zero", "cross", "get_unit_vector"}

ModifyingNames ==
    {"plus_assign", "plus_assign_num", "minus_assign", "minus_assign_num",
     "times_assign", "times_assign_num", "div_assign", "div_assign_num",
     "zero", "ones", "normalize", "set_index", "set_x_val", "set_y_val",
     "set_z_val"}

\* C1: on a vector whose is_zero() is true, normalize() leaves every element as
\* it was and get_unit_vector() returns the zero vector; neither executes a
\* division nor ends in a trap.
C1_ZeroLengthGuard ==
    [][is_zero(a) =>
          /\ op' = "normalize" => a' = a /\ ndiv' = 0 /\ ~trapped'
          /\ op' = "get_unit_vector" => AllZero(res') /\ ndiv' = 0 /\ ~trapped']_vars

C1_Witness == op = "normalize" /\ steps = 2 /\ is_zero(a) /\ ndiv = 0

\* C2: a.cross(b) equals -(b.cross(a)) element by element, and a.cross(a) is
\* the zero vector.
C2_CrossAnticommutes ==
    op = "cross" =>
        /\ \A i \in Index : res[i] = op_neg(cross(b, a))[i]
        /\ a = b => AllZero(res)

C2_Witness ==
    /\ op = "cross"
    /\ a = vector3_xyz(1, 0, 0)
    /\ b = vector3_xyz(0, 1, 0)
    /\ res = vector3_xyz(0, 0, 1)

\* C3: the cross product is orthogonal to both operands: a.cross(b).dot(a) and
\* a.cross(b).dot(b) are 0.
C3_CrossOrthogonal == op = "cross" => dot(res, a) = 0 /\ dot(res, b) = 0

C3_Witness == op = "cross" /\ ~AllZero(res) /\ a = vector_base_val(NumMax)

\* C4: for every vector a with nonzero length, a.get_unit_vector().length()
\* is 1.
C4_UnitLengthIsOne ==
    (op = "get_unit_vector" /\ length_sqr(a) > 0) =>
        \A u \in Outcomes(length_sqr(res) < 0) : length(res, u) = 1

\* C5: a + b, a - b, a * b and a / b (no element of b zero) are the vectors
\* whose element i is a[i] op b[i], and a op= b leaves a equal to that vector.
C5_ElementWise ==
    [][/\ op' = "plus" => res' = [i \in Index |-> Narrow(a[i] + b[i])]
       /\ op' = "plus_assign" => a' = [i \in Index |-> Narrow(a[i] + b[i])]
       /\ op' = "minus" => res' = [i \in Index |-> Narrow(a[i] - b[i])]
       /\ op' = "minus_assign" => a' = [i \in Index |-> Narrow(a[i] - b[i])]
       /\ op' = "times" => res' = [i \in Index |-> Narrow(a[i] * b[i])]
       /\ op' = "times_assign" => a' = [i \in Index |-> Narrow(a[i] * b[i])]
       /\ (op' = "div" /\ ~has_zero(b)) =>
              /\ ~trapped'
              /\ res' = [i \in Index |-> Narrow(TruncDiv(a[i], b[i]))]
       /\ (op' = "div_assign" /\ ~has_zero(b)) =>
              /\ ~trapped'
              /\ a' = [i \in Index |-> Narrow(TruncDiv(a[i], b[i]))]]_vars

C5_Witness ==
    /\ op = "div"
    /\ a = vector3_xyz(2, 0, 0)
    /\ b = vector_base_val(2)
    /\ res = vector3_xyz(1, 0, 0)

\* C6: addition is commutative and associative: a + b equals b + a and
\* (a + b) + c equals a + (b + c), element by element.
C6_PlusCommutesAssociates ==
    /\ op = "plus" => \A i \in Index : res[i] = op_plus(b, a)[i]
    /\ op = "sum_left" => \A i \in Index : res[i] = op_plus(a, op_plus(b, c))[i]

C6_Witness ==
    /\ op = "sum_left"
    /\ a = vector_base_val(NumMax)
    /\ b = vector_base_val(1)
    /\ c = vector_base_val(-1)
    /\ res = a

\* C7: unary -a has every element negated, and a + (-a) is the zero vector:
\* (a + (-a)).is_zero() is true.
C7_NegationCancels ==
    /\ op = "neg" => \A i \in Index : res[i] = Narrow(-a[i])
    /\ op = "plus_negated" => AllZero(res) /\ is_zero(res)

C7_Witness == op = "plus_negated" /\ a = vector3_xyz(1, -2, 2) /\ AllZero(res)

\* C8: a.dot(b) is the sum over i of a[i] * b[i], a.dot(b) equals b.dot(a), and
\* a.length_sqr() equals a.dot(a).
C8_DotIsSumOfProducts ==
    /\ op = "dot" =>
          /\ res = Narrow(SumOfProducts(a, b, Index))
          /\ res = dot(b, a)
    /\ op = "length_sqr" => res = dot(a, a)

C8_Witness ==
    /\ op = "dot"
    /\ SumOfProducts(a, b, Index) \notin NumType
    /\ res # 0

\* C9: is_zero() is true exactly when every element is zero; it is true of a
\* default-constructed vector and right after zero(), false right after ones().
C9_IsZeroIffAllZero ==
    /\ is_zero(a) <=> AllZero(a)
    /\ op = "is_zero" => res = AllZero(a)
    /\ op = "init" => is_zero(a)
    /\ op = "zero" => is_zero(a)
    /\ op = "ones" => ~is_zero(a)

C9_Witness == op = "is_zero" /\ steps = 2 /\ a[0] = 0 /\ res = FALSE

\* C10: the value-returning operations leave every element of both operands
\* as it was; only the modifying operations change a vector, and each changes
\* its receiver alone.
C10_Frame ==
    [][/\ op' \in ValueNames => a' = a /\ b' = b
       /\ a' # a => op' \in ModifyingNames
       /\ b' = b]_vars

C10_Witness == op = "plus" /\ steps = 2 /\ res # a /\ ~AllZero(a)

====
